---- MODULE Spec2Model ----
(***************************************************************************)
(* A model of the QuickFile MCP adapter's core: the authentication header  *)
(* builder (api/auth.ts), the API client's request() lifecycle with its    *)
(* timeout timer, debug logging and error classification, and the          *)
(* response-envelope unwrapping (api/client.ts).                           *)
(*                                                                         *)
(* JavaScript strings are TLA+ strings built with \o, so that equality of  *)
(* two submission numbers, messages or log lines is equality of the texts  *)
(* the program produces.  JavaScript runs each synchronous stretch of a    *)
(* handler to completion, so one action is one stretch between two awaits. *)
(***************************************************************************)
EXTENDS Integers, Sequences, FiniteSets, TLC

\* ------------------------------------------------------------------ bounds
\* Number of request() invocations that can be in flight together.
NumCalls == 2
\* Number of submission numbers generated in one behaviour.
MaxIssued == 5
\* The clock is read at most this many milliseconds after ClockStart.
MaxClockAdvance == 2
\* First clock reading: the last one whose base-36 text has one digit, so
\* that the text grows by a digit while the process runs.
ClockStart == 35
\* A process that has already generated this many submission numbers: the
\* next ones take the counter from 4 to 5 decimal digits.
NearPadLimit == 9998
\* Number of headers built by direct createAuthHeader calls in one behaviour.
MaxHeaders == 2
\* Number of getApiClient calls in one behaviour.
MaxGets == 4
\* Number of instances constructed in one behaviour.
MaxClients == 2
\* Number of times the credentials file is read in one behaviour.
MaxReads == 2
\* Number of direct handleToolError calls in one behaviour.
MaxHandled == 2

Calls == 1 .. NumCalls

\* ------------------------------------------------------- program constants
API_BASE_URL == "https://api.quickfile.co.uk"
API_VERSION == "1_2"
DefaultTimeout == 30000
PadLength == 4
REDACTED == "***REDACTED***"

\* ------------------------------------------------------------ text helpers
Base36Digits ==
  << "0", "1", "2", "3", "4", "5", "6", "7", "8", "9", "a", "b", "c", "d",
     "e", "f", "g", "h", "i", "j", "k", "l", "m", "n", "o", "p", "q", "r",
     "s", "t", "u", "v", "w", "x", "y", "z" >>

\* Number.prototype.toString(radix) for a non-negative integer.
RECURSIVE NumberToString(_, _)
NumberToString(n, radix) ==
  IF n < radix
    THEN Base36Digits[n + 1]
    ELSE NumberToString(n \div radix, radix) \o Base36Digits[(n % radix) + 1]

\* String.prototype.padStart(targetLength, "0"): never shortens the text.
RECURSIVE padStart(_, _)
padStart(s, targetLength) ==
  IF Len(s) >= targetLength THEN s ELSE padStart("0" \o s, targetLength)

\* ------------------------------------------------------------- api/auth.ts
\* generateSubmissionNumber relying on the clock alone.
generateSubmissionNumberClockOnly(counter, timestamp) ==
  NumberToString(timestamp, 36)

\* The text generateSubmissionNumber returns once the counter has been
\* incremented to counter and Date.now() has returned timestamp.
generateSubmissionNumber(counter, timestamp) ==
  NumberToString(timestamp, 36) \o padStart(NumberToString(counter, 10), PadLength)

\* A counter held to the 4 digits of the pad.
IncrementCounterSaturating(counter) ==
  IF counter >= 9999 THEN 9999 ELSE counter + 1

\* submissionCounter++
IncrementCounter(counter) == counter + 1

\* A digest that leaves the submission number out.
generateMD5HashNoSubmission(accountNumber, apiKey, submissionNumber) ==
  "md5(" \o accountNumber \o apiKey \o ")"

\* MD5 of the concatenation, kept symbolic: the digest of a text is the text
\* tagged "md5(...)", so equal inputs give equal digests and the digest is
\* injective on the concatenated input.
generateMD5Hash(accountNumber, apiKey, submissionNumber) ==
  "md5(" \o accountNumber \o apiKey \o submissionNumber \o ")"

\* The testMode argument of createAuthHeader: "true", "false", or "absent"
\* when the caller leaves it out and the default (testMode = false) applies.
BoolArg(b) == IF b THEN "true" ELSE "false"
DefaultFalse(arg) == arg = "true"

\* createAuthHeader writing TestMode in every header.
createAuthHeaderAlwaysField(credentials, testMode, submissionNumber) ==
  [ MessageType |-> "Request",
    SubmissionNumber |-> submissionNumber,
    Authentication |->
      [ AccNumber |-> credentials.accountNumber,
        MD5Value |-> generateMD5Hash(credentials.accountNumber,
                                     credentials.apiKey, submissionNumber),
        ApplicationID |-> credentials.applicationId ],
    TestMode |-> IF testMode = "true" THEN "true" ELSE "false" ]

\* createAuthHeader putting the key itself where the application id goes.
createAuthHeaderSendsKey(credentials, testMode, submissionNumber) ==
  [ MessageType |-> "Request",
    SubmissionNumber |-> submissionNumber,
    Authentication |->
      [ AccNumber |-> credentials.accountNumber,
        MD5Value |-> generateMD5Hash(credentials.accountNumber,
                                     credentials.apiKey, submissionNumber),
        ApplicationID |-> credentials.apiKey ],
    TestMode |-> IF testMode = "true" THEN "true" ELSE "absent" ]

\* The header createAuthHeader returns once generateSubmissionNumber has
\* returned submissionNumber.  TestMode is "true" or "absent": the key is
\* set only inside if (testMode).
createAuthHeader(credentials, testMode, submissionNumber) ==
  [ MessageType |-> "Request",
    SubmissionNumber |-> submissionNumber,
    Authentication |->
      [ AccNumber |-> credentials.accountNumber,
        MD5Value |-> generateMD5Hash(credentials.accountNumber,
                                     credentials.apiKey, submissionNumber),
        ApplicationID |-> credentials.applicationId ],
    TestMode |-> IF DefaultFalse(testMode) THEN "true" ELSE "absent" ]

\* One createAuthHeader call: what it was given and what it returned.
HeaderBuilt(credentials, testMode, header) ==
  [ credentials |-> credentials, testMode |-> testMode, header |-> header ]


\* ----------------------------------------------------------- api/client.ts
\* class QuickFileApiError: an Error with name "QuickFileApiError" and a code.
QuickFileApiError(message, code) ==
  [ type |-> "QuickFileApiError", name |-> "QuickFileApiError",
    message |-> message, code |-> code ]

\* Any other Error object (TypeError, SyntaxError, DOMException AbortError).
JsError(name, message) ==
  [ type |-> "Error", name |-> name, message |-> message, code |-> "" ]

\* A thrown value that is not an Error object.
NonErrorValue == [ type |-> "other", name |-> "", message |-> "", code |-> "" ]

NoError == [ type |-> "none", name |-> "", message |-> "", code |-> "" ]

\* How a stretch of code ends: it returns a value or throws.
Return(value) == [ kind |-> "return", value |-> value, error |-> NoError ]
Throw(error) == [ kind |-> "throw", value |-> "undefined", error |-> error ]

\* handleRequestError passing an Error on as it caught it.
handleRequestErrorRethrow(error, timeout) ==
  IF error.type \in {"QuickFileApiError", "Error"}
    THEN error
    ELSE QuickFileApiError("Unknown error occurred", "UNKNOWN")

\* handleRequestError blind to the message: every Error reported with one fixed text.
handleRequestErrorFixedText(error, timeout) ==
  IF error.type = "QuickFileApiError"
    THEN error
    ELSE IF error.type = "Error"
      THEN IF error.name = "AbortError"
             THEN QuickFileApiError(
                    "Request timeout after " \o ToString(timeout) \o "ms", "TIMEOUT")
             ELSE QuickFileApiError("Network error", "NETWORK_ERROR")
      ELSE QuickFileApiError("Unknown error occurred", "UNKNOWN")

\* handleRequestError without the AbortError case.
handleRequestErrorNoAbort(error, timeout) ==
  IF error.type = "QuickFileApiError"
    THEN error
    ELSE IF error.type = "Error"
      THEN QuickFileApiError(error.message, "NETWORK_ERROR")
      ELSE QuickFileApiError("Unknown error occurred", "UNKNOWN")

handleRequestError(error, timeout) ==
  IF error.type = "QuickFileApiError"
    THEN error
    ELSE IF error.type = "Error"
      THEN IF error.name = "AbortError"
             THEN QuickFileApiError(
                    "Request timeout after " \o ToString(timeout) \o "ms", "TIMEOUT")
             ELSE QuickFileApiError(error.message, "NETWORK_ERROR")
      ELSE QuickFileApiError("Unknown error occurred", "UNKNOWN")

\* ------------------------------------------------ JSON values on the wire
\* A value under a top-level key of the response.  kind is what JavaScript
\* sees: "object" (a plain object, Body is its Body member or "undefined"),
\* "array" (list holds its items, here vendor error entries), "null",
\* "string" (a non-empty string: truthy, not an object), "zero" (the number
\* 0: falsy, not an object) and "undefined" (no such member).
JObject(body) == [ kind |-> "object", Body |-> body, list |-> <<>> ]
JArray(items) == [ kind |-> "array", Body |-> "undefined", list |-> items ]
JNull == [ kind |-> "null", Body |-> "undefined", list |-> <<>> ]
JString == [ kind |-> "string", Body |-> "undefined", list |-> <<>> ]
JZero == [ kind |-> "zero", Body |-> "undefined", list |-> <<>> ]
Undefined == [ kind |-> "undefined", Body |-> "undefined", list |-> <<>> ]

\* A parsed response: top is "object" (entries are its members, in the order
\* Object.keys lists them) or "null" (the JSON text null).
JsonObject(entries) == [ top |-> "object", entries |-> entries ]
JsonNull == [ top |-> "null", entries |-> <<>> ]

\* data[key]
RECURSIVE Member(_, _)
Member(entries, key) ==
  IF entries = <<>>
    THEN Undefined
    ELSE IF Head(entries).key = key
      THEN Head(entries).value
      ELSE Member(Tail(entries), key)

\* Truthiness, Array.isArray and typeof x === "object" of a value.
Truthy(v) == v.kind \in {"object", "array", "string"}
IsArray(v) == v.kind = "array"
TypeofObject(v) == v.kind \in {"object", "array", "null"}

\* x.Body: a TypeError on null and undefined, undefined on a string or a
\* number, the member on an object.
ReadBody(v) ==
  IF v.kind \in {"null", "undefined"}
    THEN Throw(JsError("TypeError", "Cannot read properties of null (reading 'Body')"))
    ELSE Return(v.Body)

\* Object.keys(data).find(predicate): the first matching key, "" for none.
RECURSIVE FindResponseKey(_)
FindResponseKey(entries) ==
  IF entries = <<>>
    THEN ""
    ELSE IF /\ Head(entries).key # "Errors"
            /\ TypeofObject(Head(entries).value)
            /\ ~IsArray(Head(entries).value)
      THEN Head(entries).key
      ELSE FindResponseKey(Tail(entries))

extractResponseBody(data, methodName) ==
  LET methodResponse == Member(data.entries, methodName)
      responseKey == FindResponseKey(data.entries)
  IN IF Truthy(methodResponse) /\ ~IsArray(methodResponse)
       THEN ReadBody(methodResponse)
       ELSE IF responseKey # ""
         THEN ReadBody(Member(data.entries, responseKey))
         ELSE Throw(QuickFileApiError("Invalid API response structure", "PARSE_ERROR"))

\* errors.map(e => e.ErrorMessage).join("; ")
RECURSIVE JoinMessages(_)
JoinMessages(errors) ==
  IF Len(errors) = 1
    THEN errors[1].ErrorMessage
    ELSE errors[1].ErrorMessage \o "; " \o JoinMessages(Tail(errors))

\* data.Errors && data.Errors.length > 0
HasVendorErrors(data) ==
  LET errors == Member(data.entries, "Errors")
  IN IsArray(errors) /\ Len(errors.list) > 0

\* The unwrap tried before the vendor error check.
DecodeDataUnwrapFirst(data, methodName) ==
  IF data.top = "null"
    THEN Throw(JsError("TypeError", "Cannot read properties of null (reading 'Errors')"))
    ELSE IF extractResponseBody(data, methodName).kind = "return"
      THEN extractResponseBody(data, methodName)
      ELSE IF HasVendorErrors(data)
        THEN LET errors == Member(data.entries, "Errors").list
             IN Throw(QuickFileApiError(JoinMessages(errors), errors[1].ErrorCode))
        ELSE extractResponseBody(data, methodName)

\* request(), from the parsed JSON on: the vendor error check and the unwrap.
\* Reading data.Errors of null is a TypeError.
DecodeData(data, methodName) ==
  IF data.top = "null"
    THEN Throw(JsError("TypeError", "Cannot read properties of null (reading 'Errors')"))
    ELSE IF HasVendorErrors(data)
      THEN LET errors == Member(data.entries, "Errors").list
           IN Throw(QuickFileApiError(JoinMessages(errors), errors[1].ErrorCode))
      ELSE extractResponseBody(data, methodName)

\* An HTTP response: ok is status in 200..299; text is "json" when the body
\* parses (to data) and "invalid" when response.json() throws a SyntaxError.
HttpResponse(status, statusText, text, data) ==
  [ status |-> status, statusText |-> statusText, text |-> text, data |-> data ]
NoResponse == HttpResponse(0, "", "none", JsonNull)
ResponseOk(response) == response.status >= 200 /\ response.status <= 299

\* if (!response.ok) throw new QuickFileApiError(...)
HttpError(response) ==
  QuickFileApiError(
    "HTTP " \o ToString(response.status) \o ": " \o response.statusText,
    ToString(response.status))

\* await response.json(), then the rest of the try block.
ParseAndDecode(response, methodName) ==
  IF response.text = "invalid"
    THEN Throw(JsError("SyntaxError", "Unexpected token < in JSON at position 0"))
    ELSE DecodeData(response.data, methodName)

\* A method name is kept as its underscore-separated parts; MethodKey is the
\* name itself, the key the vendor uses for the response entry.
RECURSIVE JoinParts(_, _)
JoinParts(parts, separator) ==
  IF Len(parts) = 1
    THEN parts[1]
    ELSE parts[1] \o separator \o JoinParts(Tail(parts), separator)

MethodKey(methodName) == JoinParts(methodName, "_")

\* String.prototype.toLowerCase on the words the method names are made of.
toLowerCase(word) ==
  CASE word = "Client" -> "client"
    [] word = "Search" -> "search"
    [] word = "Report" -> "report"
    [] word = "Subscriptions" -> "subscriptions"
    [] word = "System" -> "system"
    [] word = "GetAccountDetails" -> "getaccountdetails"
    [] word = "Invoice" -> "invoice"
    [] word = "Get" -> "get"
    [] word = "PDF" -> "pdf"
    [] word = "Ping" -> "ping"
    [] word = "VatObligations" -> "vatobligations"
    [] word = "ProfitAndLoss" -> "profitandloss"
    [] OTHER -> word

RECURSIVE ConcatLower(_)
ConcatLower(parts) ==
  IF parts = <<>> THEN "" ELSE toLowerCase(Head(parts)) \o ConcatLower(Tail(parts))

\* buildUrl taking the second part alone for the method.
buildUrlSecondPart(methodName) ==
  API_BASE_URL \o "/" \o API_VERSION \o "/"
    \o toLowerCase(Head(methodName)) \o "/"
    \o (IF Len(methodName) > 1 THEN toLowerCase(methodName[2]) ELSE "")

buildUrl(methodName) ==
  API_BASE_URL \o "/" \o API_VERSION \o "/"
    \o toLowerCase(Head(methodName)) \o "/" \o ConcatLower(Tail(methodName))

\* Request bodies: the Body key is absent, or holds search parameters, or
\* holds the AccountDetails block of System_GetAccountDetails.
AbsentBody == [ kind |-> "absent", AccountNumber |-> "" ]
EmptyBody == [ kind |-> "empty", AccountNumber |-> "" ]
NullBody == [ kind |-> "null", AccountNumber |-> "" ]
ParamsBody == [ kind |-> "SearchParameters", AccountNumber |-> "" ]
AccountDetailsBody(accountNumber) ==
  [ kind |-> "AccountDetails", AccountNumber |-> accountNumber ]

\* options?.noBody as a condition, for options left out ("absent") or given
\* with noBody false or true.
NoBodySet(option) == option = "true"

\* The request object with a null Body where the key should be left out.
BuildRequestNullBody(header, body, noBody) ==
  [ payload |-> [ Header |-> header, Body |-> IF noBody THEN NullBody ELSE body ] ]

\* The request object of request(): noBody leaves the Body key out.
BuildRequest(header, body, noBody) ==
  [ payload |-> [ Header |-> header, Body |-> IF noBody THEN AbsentBody ELSE body ] ]

\* The string scalars JSON.stringify writes for a request object.
BodyStrings(body) ==
  IF body.kind = "AccountDetails" THEN {body.AccountNumber} ELSE {}

RequestStrings(request) ==
  LET header == request.payload.Header
  IN { header.MessageType, header.SubmissionNumber,
       header.Authentication.AccNumber, header.Authentication.MD5Value,
       header.Authentication.ApplicationID }
     \cup BodyStrings(request.payload.Body)

\* logDebugRequest: the URL line and the request with AccNumber and MD5Value
\* replaced; the Body is copied as it is.
safeRequest(request) ==
  [ payload |->
      [ Header |->
          [ request.payload.Header EXCEPT
              !.Authentication =
                [ AccNumber |-> REDACTED, MD5Value |-> REDACTED,
                  ApplicationID |-> @.ApplicationID ] ],
        Body |-> request.payload.Body ] ]

logDebugRequest(url, request) ==
  << [ tag |-> "URL", strings |-> {url} ],
     [ tag |-> "Request", strings |-> RequestStrings(safeRequest(request)) ] >>

\* The string scalars of a response text: the Body values and the vendor
\* error texts it carries.
RECURSIVE EntriesStrings(_)
EntriesStrings(entries) ==
  IF entries = <<>>
    THEN {}
    ELSE LET v == Head(entries).value
         IN (IF v.kind = "object" THEN {v.Body} \ {"undefined"} ELSE {})
            \cup { v.list[i].ErrorMessage : i \in DOMAIN v.list }
            \cup { v.list[i].ErrorCode : i \in DOMAIN v.list }
            \cup EntriesStrings(Tail(entries))

logDebugResponse(response) ==
  << [ tag |-> "Response Status", strings |-> {ToString(response.status)} ],
     [ tag |-> "Response", strings |-> EntriesStrings(response.data.entries) ] >>

\* The HTTP headers request() passes to fetch.
FetchHeaders == [ ContentType |-> "application/json", Accept |-> "application/json" ]

\* ---------------------------------------------------------- tools/utils.ts
\* handleToolError reporting an API error like any other Error.
handleToolErrorNoCode(error) ==
  [ content |->
      << [ type |-> "text",
           text |-> IF error.type \in {"QuickFileApiError", "Error"}
                      THEN "Error: " \o error.message
                      ELSE "Error: Unknown error" ] >>,
    isError |-> "true" ]

\* A ToolResult: one text item; isError is "true" or "absent".
handleToolError(error) ==
  [ content |->
      << [ type |-> "text",
           text |-> IF error.type = "QuickFileApiError"
                      THEN "QuickFile API Error [" \o error.code \o "]: " \o error.message
                      ELSE IF error.type = "Error"
                        THEN "Error: " \o error.message
                        ELSE "Error: Unknown error" ] >>,
    isError |-> "true" ]

\* successResult(data): the text is JSON.stringify(data), here the name the
\* model gives the body.
successResult(data) ==
  [ content |-> << [ type |-> "text", text |-> data ] >>, isError |-> "absent" ]

\* errorResult(message)
errorResult(message) ==
  [ content |-> << [ type |-> "text", text |-> message ] >>, isError |-> "true" ]

\* The promise a tool call returned: not made, pending, resolved with a
\* ToolResult or rejected with what the handler let through.
NoToolResult == [ content |-> <<>>, isError |-> "absent" ]
NoToolCall ==
  [ state |-> "none", tool |-> "", result |-> NoToolResult, error |-> NoError ]
ToolPending(tool) ==
  [ state |-> "pending", tool |-> tool, result |-> NoToolResult, error |-> NoError ]
ToolResolved(tool, toolResult) ==
  [ state |-> "resolved", tool |-> tool, result |-> toolResult, error |-> NoError ]
ToolRejected(tool, error) ==
  [ state |-> "rejected", tool |-> tool, result |-> NoToolResult, error |-> error ]

\* ------------------------------------------------------------------- state
VARIABLES
  submissionCounter,  \* auth.ts: let submissionCounter
  now,                \* the latest reading of Date.now()
  issued,             \* the texts generateSubmissionNumber has returned, in order
  headers,            \* the createAuthHeader calls made: arguments and header returned
  QUICKFILE_DEBUG,    \* process.env.QUICKFILE_DEBUG is truthy (set and not empty)
  client,             \* the QuickFileApiClient instances: credentials, testMode, timeout
  defaultClient,      \* client.ts: let defaultClient (0 is null)
  credentialsFile,    \* what ~/.config/.quickfile-mcp/credentials.json holds now
  fileReads,          \* the readFileSync calls made on the credentials file
  gets,               \* the getApiClient calls made: options and what each returned
  pc,                 \* per request() invocation: the await it is suspended at
  req,                \* per invocation: client, methodName, url and request object
  timer,              \* per invocation: the setTimeout handle timeoutId
  elapsed,            \* per invocation: the timeout has elapsed since dispatch
  posts,              \* per invocation: the fetch calls (HTTP POSTs) made
  resp,               \* per invocation: the Response fetch resolved with
  result,             \* per invocation: how the promise request() returned settled
  caught,             \* per invocation: the value the catch block of request() caught
  stderr,             \* per invocation: the lines it wrote with console.error
  toolCall,           \* per invocation: the promise of the tool call that made it
  handled             \* the handleToolError calls made: argument and result

\* The module-level instance cache and the file the instances load from.
registry == << defaultClient, credentialsFile, fileReads, gets >>

\* The tool layer: the tool calls' promises and the errors turned into results.
toolVars == << toolCall, handled >>

vars ==
  << submissionCounter, now, issued, headers, QUICKFILE_DEBUG, client, registry, toolVars, pc,
     req, timer, elapsed, posts, resp, result, caught, stderr >>

\* The content of credentials.json when the instances were constructed.
LoadedCredentials ==
  [ accountNumber |-> "6131405546",
    apiKey |-> "A1B2-C3D4-E5F6",
    applicationId |-> "0a1b2c3d-1111-2222-3333-444455556666" ]

\* The same account after its API key was rotated.
RotatedCredentials == [ LoadedCredentials EXCEPT !.apiKey = "G7H8-I9J0-K1L2" ]

\* Another account altogether.
OtherCredentials ==
  [ accountNumber |-> "6131409999",
    apiKey |-> "M3N4-O5P6-Q7R8",
    applicationId |-> "0a1b2c3d-7777-8888-9999-000011112222" ]

CREDENTIALS_PATH == "~/.config/.quickfile-mcp/credentials.json"

\* The credentials file: kind is "missing" (existsSync is false), "unreadable"
\* (readFileSync throws), "invalid" (JSON.parse throws a SyntaxError), "null"
\* (the JSON text null) or "object"
\* (a JSON object; a field it lacks or holds empty is "").
NoCredentials == [ accountNumber |-> "", apiKey |-> "", applicationId |-> "" ]
FileMissing == [ kind |-> "missing", credentials |-> NoCredentials ]
FileUnreadable == [ kind |-> "unreadable", credentials |-> NoCredentials ]
FileInvalid == [ kind |-> "invalid", credentials |-> NoCredentials ]
FileNull == [ kind |-> "null", credentials |-> NoCredentials ]
FileObject(credentials) == [ kind |-> "object", credentials |-> credentials ]

\* loadCredentials(): returns the parsed object or throws.
loadCredentials(file) ==
  CASE file.kind = "missing" ->
         Throw(JsError("Error",
           "QuickFile credentials not found at " \o CREDENTIALS_PATH
             \o "\nPlease create the file with: accountNumber, apiKey, applicationId"))
    [] file.kind = "unreadable" ->
         Throw(JsError("Error", "EACCES: permission denied, open '"
                                  \o CREDENTIALS_PATH \o "'"))
    [] file.kind = "invalid" ->
         Throw(JsError("Error", "Invalid JSON in credentials file: " \o CREDENTIALS_PATH))
    [] file.kind = "null" ->
         Throw(JsError("TypeError",
           "Cannot read properties of null (reading 'accountNumber')"))
    [] OTHER ->
         IF \/ file.credentials.accountNumber = ""
            \/ file.credentials.apiKey = ""
            \/ file.credentials.applicationId = ""
           THEN Throw(JsError("Error",
                  "Missing required credential fields: accountNumber, apiKey, applicationId"))
           ELSE Return(file.credentials)

\* readFileSync runs once per loadCredentials() unless existsSync was false.
ReadFile(file, reads) == IF file.kind = "missing" THEN reads ELSE reads + 1

\* ApiClientOptions as passed to the constructor and to getApiClient: given
\* is false for undefined; testMode is "true", "false" or "absent".
Options(testMode, timeoutGiven, timeout) ==
  [ given |-> TRUE, testMode |-> testMode, timeoutGiven |-> timeoutGiven,
    timeout |-> timeout ]
NoOptions ==
  [ given |-> FALSE, testMode |-> "absent", timeoutGiven |-> FALSE, timeout |-> 0 ]

\* new QuickFileApiClient(options) once loadCredentials() has returned
\* credentials: testMode defaults to false and timeout to 30000.
QuickFileApiClient(credentials, options) ==
  [ credentials |-> credentials,
    testMode |-> DefaultFalse(options.testMode),
    timeout |-> IF options.timeoutGiven THEN options.timeout ELSE DefaultTimeout ]

Clients == DOMAIN client

getAccountNumber(c) == client[c].credentials.accountNumber
isTestMode(c) == client[c].testMode

\* One getApiClient call: its options and the instance it returned, or 0 and
\* the error the constructor threw.
Got(options, returned, error) ==
  [ options |-> options, returned |-> returned, error |-> error ]

NoRequest ==
  [ client |-> 0, methodName |-> <<>>, url |-> "", tool |-> "",
    args |-> [ body |-> AbsentBody, noBody |-> FALSE ],
    request |-> BuildRequest(
      createAuthHeader([ accountNumber |-> "", apiKey |-> "", applicationId |-> "" ],
                       "false", ""),
      AbsentBody, TRUE) ]

Pending == [ state |-> "pending", value |-> "undefined", error |-> NoError ]
Resolved(value) == [ state |-> "resolved", value |-> value, error |-> NoError ]
Rejected(error) == [ state |-> "rejected", value |-> "undefined", error |-> error ]

Init ==
  /\ submissionCounter \in {0, NearPadLimit}
  /\ now = ClockStart
  /\ issued = <<>>
  /\ QUICKFILE_DEBUG \in BOOLEAN
  /\ headers = <<>>
  /\ client = << QuickFileApiClient(LoadedCredentials, NoOptions),
                 QuickFileApiClient(LoadedCredentials, Options("true", TRUE, 1)) >>
  /\ defaultClient = 1
  /\ credentialsFile = FileObject(LoadedCredentials)
  /\ fileReads = 2
  /\ gets = << Got(NoOptions, 1, NoError) >>
  /\ caught = [r \in Calls |-> NoError]
  /\ pc = [r \in Calls |-> "idle"]
  /\ req = [r \in Calls |-> NoRequest]
  /\ timer = [r \in Calls |-> "none"]
  /\ elapsed = [r \in Calls |-> FALSE]
  /\ posts = [r \in Calls |-> 0]
  /\ resp = [r \in Calls |-> NoResponse]
  /\ result = [r \in Calls |-> Pending]
  /\ stderr = [r \in Calls |-> <<>>]
  /\ toolCall = [r \in Calls |-> NoToolCall]
  /\ handled = <<>>

\* ----------------------------------------------------------------- actions
\* getApiClient that never replaces a cached instance.
getApiClientKeepsFirst(options) ==
  LET loaded == loadCredentials(credentialsFile)
  IN IF defaultClient = 0
       THEN /\ fileReads' = ReadFile(credentialsFile, fileReads)
            /\ IF loaded.kind = "return"
                 THEN /\ client' = Append(client, QuickFileApiClient(loaded.value, options))
                      /\ defaultClient' = Len(client) + 1
                      /\ gets' = Append(gets, Got(options, Len(client) + 1, NoError))
                 ELSE /\ gets' = Append(gets, Got(options, 0, loaded.error))
                      /\ UNCHANGED << client, defaultClient >>
       ELSE /\ gets' = Append(gets, Got(options, defaultClient, NoError))
            /\ UNCHANGED << client, defaultClient, fileReads >>

\* getApiClient forgetting the cached instance when the constructor throws.
getApiClientDropsOnFailure(options) ==
  LET loaded == loadCredentials(credentialsFile)
  IN IF defaultClient = 0 \/ options.given
       THEN /\ fileReads' = ReadFile(credentialsFile, fileReads)
            /\ IF loaded.kind = "return"
                 THEN /\ client' = Append(client, QuickFileApiClient(loaded.value, options))
                      /\ defaultClient' = Len(client) + 1
                      /\ gets' = Append(gets, Got(options, Len(client) + 1, NoError))
                 ELSE /\ gets' = Append(gets, Got(options, 0, loaded.error))
                      /\ defaultClient' = 0
                      /\ UNCHANGED client
       ELSE /\ gets' = Append(gets, Got(options, defaultClient, NoError))
            /\ UNCHANGED << client, defaultClient, fileReads >>

\* getApiClient(options): constructs and caches an instance when none is
\* cached or options are given, and returns the cached one.  A constructor
\* that throws leaves the cache as it was.
getApiClient(options) ==
  LET loaded == loadCredentials(credentialsFile)
  IN IF defaultClient = 0 \/ options.given
       THEN /\ fileReads' = ReadFile(credentialsFile, fileReads)
            /\ IF loaded.kind = "return"
                 THEN /\ client' = Append(client, QuickFileApiClient(loaded.value, options))
                      /\ defaultClient' = Len(client) + 1
                      /\ gets' = Append(gets, Got(options, Len(client) + 1, NoError))
                 ELSE /\ gets' = Append(gets, Got(options, 0, loaded.error))
                      /\ UNCHANGED << client, defaultClient >>
       ELSE /\ gets' = Append(gets, Got(options, defaultClient, NoError))
            /\ UNCHANGED << client, defaultClient, fileReads >>

\* The clock readings Date.now() can return next: it does not go back.
ClockReadings == { t \in now .. now + 1 : t <= ClockStart + MaxClockAdvance }

\* A direct call of the exported generateSubmissionNumber().
GenerateSubmissionNumber ==
  /\ Len(issued) < MaxIssued
  /\ \E t \in ClockReadings :
       /\ submissionCounter' = IncrementCounter(submissionCounter)
       /\ now' = t
       /\ issued' = Append(issued, generateSubmissionNumber(submissionCounter', t))
  /\ UNCHANGED << headers, QUICKFILE_DEBUG, client, registry, toolVars, pc, req, timer, elapsed,
                  posts, resp, result, caught, stderr >>

\* fetch(url, {method: "POST", ...}): one more POST on the wire.
Fetch(n) == n + 1

\* request() up to its first await: buildUrl, createAuthHeader (which takes
\* the next submission number), the request object, setTimeout, the debug
\* log of the request, and the fetch call.
\* self is the instance the method is called on and c its place in client.
StartRequest(r, c, self, methodName, body, noBody, tool, t) ==
  LET counter == IncrementCounter(submissionCounter)
      submissionNumber == generateSubmissionNumber(counter, t)
      header == createAuthHeader(self.credentials, BoolArg(self.testMode),
                                 submissionNumber)
      request == BuildRequest(header, body, noBody)
      url == buildUrl(methodName)
  IN /\ pc[r] = "idle"
     /\ toolCall[r].state = "none"
     /\ Len(issued) < MaxIssued
     /\ submissionCounter' = counter
     /\ now' = t
     /\ issued' = Append(issued, submissionNumber)
     /\ headers' = Append(headers, HeaderBuilt(self.credentials,
                                               BoolArg(self.testMode), header))
     /\ req' = [req EXCEPT ![r] =
                  [ client |-> c, methodName |-> methodName, url |-> url,
                    tool |-> tool, args |-> [ body |-> body, noBody |-> noBody ],
                    request |-> request ]]
     /\ timer' = [timer EXCEPT ![r] = "pending"]
     /\ stderr' = [stderr EXCEPT ![r] =
                     IF QUICKFILE_DEBUG THEN @ \o logDebugRequest(url, request) ELSE @]
     /\ posts' = [posts EXCEPT ![r] = Fetch(@)]
     /\ pc' = [pc EXCEPT ![r] = "fetch"]
     /\ UNCHANGED << QUICKFILE_DEBUG, elapsed, resp, result, caught >>

\* What handleSystemTool returns once the request() it awaits has settled in
\* outcome: successResult(response.AccountDetails || response), or
\* handleToolError of what the try block threw.  Reading AccountDetails of an
\* undefined response is a TypeError.
SystemToolResult(outcome) ==
  IF outcome.state = "rejected"
    THEN handleToolError(outcome.error)
    ELSE IF outcome.value = "undefined"
      THEN handleToolError(JsError("TypeError",
             "Cannot read properties of undefined (reading 'AccountDetails')"))
      ELSE successResult(outcome.value)

\* The (methodName, body, options) a caller passes to request().
Invocations ==
  { [ methodName |-> << "Client", "Search" >>, body |-> ParamsBody, noBody |-> FALSE ],
    [ methodName |-> << "Report", "Subscriptions" >>, body |-> ParamsBody, noBody |-> TRUE ] }

\* client.request(methodName, body, options) called on any instance.
Request(r) ==
  /\ pc[r] = "idle"
  /\ \E c \in Clients, inv \in Invocations, t \in ClockReadings :
       StartRequest(r, c, client[c], inv.methodName, inv.body, inv.noBody, "", t)
  /\ UNCHANGED << client, registry, toolVars >>

\* handleSystemTool("quickfile_system_get_account"): getApiClient(), then a
\* request on the instance it returned, with that instance's account number
\* in the body.  getApiClient() is called before the try block: when the
\* constructor throws, no request is made and the handler's promise rejects
\* with what the constructor threw.
HandleSystemTool(r) ==
  /\ pc[r] = "idle"
  /\ toolCall[r].state = "none"
  /\ Len(gets) < MaxGets
  /\ getApiClient(NoOptions)
  /\ UNCHANGED << credentialsFile, handled >>
  /\ IF defaultClient' = 0
       THEN /\ toolCall' = [toolCall EXCEPT ![r] =
                              ToolRejected("quickfile_system_get_account",
                                           gets'[Len(gets')].error)]
            /\ UNCHANGED << submissionCounter, now, issued, headers, QUICKFILE_DEBUG,
                            pc, req, timer, elapsed, posts, resp, result, caught,
                            stderr >>
       ELSE /\ toolCall' = [toolCall EXCEPT ![r] =
                              ToolPending("quickfile_system_get_account")]
            /\ \E t \in ClockReadings :
                 StartRequest(r, defaultClient', client'[defaultClient'],
                              << "System", "GetAccountDetails" >>,
                              AccountDetailsBody(
                                client'[defaultClient'].credentials.accountNumber),
                              FALSE, "quickfile_system_get_account", t)

\* String.prototype.startsWith
StartsWith(text, prefix) ==
  Len(text) >= Len(prefix) /\ SubSeq(text, 1, Len(prefix)) = prefix

\* JSON.stringify(..., null, 2) of what the VAT obligations handler returns
\* from its own catch block.
VatUnavailable ==
  "{\n  \"count\": 0,\n  \"obligations\": [],\n  \"message\": \"VAT obligations not available. This account may not be VAT registered or MTD VAT may not be configured.\"\n}"

\* The VAT obligations handler without its own catch block.
VatObligationsResultNoCatch(outcome) ==
  IF outcome.state = "rejected"
    THEN handleToolError(outcome.error)
    ELSE IF outcome.value = "undefined"
      THEN handleToolError(JsError("TypeError",
             "Cannot read properties of undefined (reading 'Obligations')"))
      ELSE successResult("{count, obligations} of " \o outcome.value)

\* quickfile_report_vat_obligations once its request() has settled in
\* outcome: the inner try holds the request and the reading of
\* response.Obligations, the inner catch returns a success result.
VatObligationsResult(outcome) ==
  IF outcome.state = "rejected" \/ outcome.value = "undefined"
    THEN successResult(VatUnavailable)
    ELSE successResult("{count, obligations} of " \o outcome.value)

\* quickfile_report_subscriptions once its request() has settled: only the
\* outer catch stands around it.
SubscriptionsResult(outcome) ==
  IF outcome.state = "rejected"
    THEN handleToolError(outcome.error)
    ELSE IF outcome.value = "undefined"
      THEN handleToolError(JsError("TypeError",
             "Cannot read properties of undefined (reading 'Subscriptions')"))
      ELSE successResult("{count, subscriptions} of " \o outcome.value)

\* quickfile_report_profit_loss once its request() has settled: it returns
\* successResult(response.Report) under the outer catch.
ProfitLossResult(outcome) ==
  IF outcome.state = "rejected"
    THEN handleToolError(outcome.error)
    ELSE IF outcome.value = "undefined"
      THEN handleToolError(JsError("TypeError",
             "Cannot read properties of undefined (reading 'Report')"))
      ELSE successResult("Report of " \o outcome.value)

\* What the handler of tool returns once the request() it awaits has settled.
ToolResultOf(tool, outcome) ==
  CASE tool = "quickfile_report_vat_obligations" -> VatObligationsResult(outcome)
    [] tool = "quickfile_report_subscriptions" -> SubscriptionsResult(outcome)
    [] tool = "quickfile_report_profit_loss" -> ProfitLossResult(outcome)
    [] OTHER -> SystemToolResult(outcome)

\* The method, body and noBody option a report tool passes to request().
ReportInvocation(toolName) ==
  CASE toolName = "quickfile_report_vat_obligations" ->
         [ methodName |-> << "Report", "VatObligations" >>, body |-> ParamsBody,
           noBody |-> FALSE ]
    [] toolName = "quickfile_report_profit_loss" ->
         [ methodName |-> << "Report", "ProfitAndLoss" >>, body |-> ParamsBody,
           noBody |-> FALSE ]
    [] OTHER ->
         [ methodName |-> << "Report", "Subscriptions" >>, body |-> EmptyBody,
           noBody |-> TRUE ]

ReportTools ==
  { "quickfile_report_vat_obligations", "quickfile_report_profit_loss",
    "quickfile_report_subscriptions" }

\* handleReportTool(toolName): getApiClient() before the try block, then the
\* tool's request on the instance it returned; a name the switch does not
\* know returns an error result without a request.
HandleReportTool(r, toolName) ==
  /\ pc[r] = "idle"
  /\ toolCall[r].state = "none"
  /\ Len(gets) < MaxGets
  /\ getApiClient(NoOptions)
  /\ UNCHANGED << credentialsFile, handled >>
  /\ IF defaultClient' = 0 \/ toolName \notin ReportTools
       THEN /\ toolCall' = [toolCall EXCEPT ![r] =
                              IF defaultClient' = 0
                                THEN ToolRejected(toolName, gets'[Len(gets')].error)
                                ELSE ToolResolved(toolName,
                                       errorResult("Unknown report tool: " \o toolName))]
            /\ UNCHANGED << submissionCounter, now, issued, headers, QUICKFILE_DEBUG,
                            pc, req, timer, elapsed, posts, resp, result, caught,
                            stderr >>
       ELSE /\ toolCall' = [toolCall EXCEPT ![r] = ToolPending(toolName)]
            /\ LET inv == ReportInvocation(toolName)
               IN StartRequest(r, defaultClient', client'[defaultClient'],
                               inv.methodName, inv.body, inv.noBody, toolName, now)

\* The tool names callers pass: the account tool, three report tools, a
\* report tool that does not exist and a name with no known prefix.
ToolNames ==
  { "quickfile_system_get_account", "quickfile_report_vat_obligations",
    "quickfile_report_profit_loss", "quickfile_report_subscriptions",
    "quickfile_report_cashflow", "quickfile_payroll_run" }

UnknownToolText(toolName) ==
  "Unknown tool: " \o toolName
    \o ". Available prefixes: quickfile_system_, quickfile_client_, quickfile_invoice_, quickfile_estimate_, quickfile_purchase_, quickfile_supplier_, quickfile_bank_, quickfile_report_"

\* handleToolCall(toolName, args): routes by prefix and returns the
\* handler's promise as it is; an unknown prefix returns an error result.
HandleToolCall(r) ==
  \E toolName \in ToolNames :
    IF StartsWith(toolName, "quickfile_system_")
      THEN HandleSystemTool(r)
      ELSE IF StartsWith(toolName, "quickfile_report_")
        THEN HandleReportTool(r, toolName)
        ELSE /\ pc[r] = "idle"
             /\ toolCall[r].state = "none"
             /\ toolCall' = [toolCall EXCEPT ![r] =
                               ToolResolved(toolName,
                                            errorResult(UnknownToolText(toolName)))]
             /\ UNCHANGED << submissionCounter, now, issued, headers, QUICKFILE_DEBUG,
                             client, registry, handled, pc, req, timer, elapsed, posts,
                             resp, result, caught, stderr >>

\* The handler resumes after the request() it awaited has settled and
\* returns its result: every path from there ends in a return.
ToolReturns(r) ==
  /\ pc[r] = "done"
  /\ toolCall[r].state = "pending"
  /\ toolCall' = [toolCall EXCEPT ![r] =
                    ToolResolved(@.tool, ToolResultOf(@.tool, result[r]))]
  /\ UNCHANGED << submissionCounter, now, issued, headers, QUICKFILE_DEBUG, client,
                  registry, handled, pc, req, timer, elapsed, posts, resp, result,
                  caught, stderr >>

\* The promise request() returned settles: a return resolves it, a throw goes
\* through the catch block (clearTimeout, handleRequestError) and rejects it.
Settle(r, completion) ==
  /\ caught' = [caught EXCEPT ![r] =
                  IF completion.kind = "throw" THEN completion.error ELSE @]
  /\ result' = [result EXCEPT ![r] =
                  IF completion.kind = "return"
                    THEN Resolved(completion.value)
                    ELSE Rejected(handleRequestError(completion.error,
                                                     client[req[r].client].timeout))]
  /\ pc' = [pc EXCEPT ![r] = "done"]

\* After the headers (and the debug log of the response): a non-2xx status
\* throws, otherwise the call awaits response.json().
CheckStatus(r, response) ==
  IF ~ResponseOk(response)
    THEN Settle(r, Throw(HttpError(response)))
    ELSE /\ pc' = [pc EXCEPT ![r] = "json"]
         /\ UNCHANGED << result, caught >>

\* fetch resolved and the timer left running.
FetchResolvesWithTimerLeft(r, response) ==
  /\ pc[r] = "fetch"
  /\ resp' = [resp EXCEPT ![r] = response]
  /\ IF QUICKFILE_DEBUG
       THEN /\ pc' = [pc EXCEPT ![r] = "debugText"]
            /\ UNCHANGED << result, caught >>
       ELSE CheckStatus(r, response)
  /\ UNCHANGED << submissionCounter, now, issued, headers, QUICKFILE_DEBUG, client, registry, toolVars, req,
                  timer, elapsed, posts, stderr >>

\* The response logged when the request was, the flag not read again.
FetchResolvesWithFlagAtDispatch(r, response) ==
  /\ pc[r] = "fetch"
  /\ resp' = [resp EXCEPT ![r] = response]
  /\ timer' = [timer EXCEPT ![r] = "cleared"]
  /\ IF stderr[r] # <<>>
       THEN /\ pc' = [pc EXCEPT ![r] = "debugText"]
            /\ UNCHANGED << result, caught >>
       ELSE CheckStatus(r, response)
  /\ UNCHANGED << submissionCounter, now, issued, headers, QUICKFILE_DEBUG, client, registry, toolVars, req,
                  elapsed, posts, stderr >>

\* fetch resolves with a response: clearTimeout, then either the debug read
\* of the body text is awaited or the status is checked.
FetchResolvesWith(r, response) ==
  /\ pc[r] = "fetch"
  /\ resp' = [resp EXCEPT ![r] = response]
  /\ timer' = [timer EXCEPT ![r] = "cleared"]
  /\ IF QUICKFILE_DEBUG
       THEN /\ pc' = [pc EXCEPT ![r] = "debugText"]
            /\ UNCHANGED << result, caught >>
       ELSE CheckStatus(r, response)
  /\ UNCHANGED << submissionCounter, now, issued, headers, QUICKFILE_DEBUG, client, registry, toolVars, req,
                  elapsed, posts, stderr >>

\* response.clone().text() delivers the body text: logDebugResponse writes
\* its two lines and the status is checked.
DebugTextDelivered(r) ==
  /\ pc[r] = "debugText"
  /\ stderr' = [stderr EXCEPT ![r] = @ \o logDebugResponse(resp[r])]
  /\ CheckStatus(r, resp[r])
  /\ UNCHANGED << submissionCounter, now, issued, headers, QUICKFILE_DEBUG, client, registry, toolVars, req,
                  timer, elapsed, posts, resp >>

\* response.json() delivers the body: parse, vendor errors, unwrap.
JsonDelivered(r) ==
  /\ pc[r] = "json"
  /\ Settle(r, ParseAndDecode(resp[r], MethodKey(req[r].methodName)))
  /\ UNCHANGED << submissionCounter, now, issued, headers, QUICKFILE_DEBUG, client, registry, toolVars, req,
                  timer, elapsed, posts, resp, stderr >>

\* Reading the body fails (the connection drops): the awaited read rejects.
BodyReadFails(r) ==
  /\ pc[r] \in {"debugText", "json"}
  /\ Settle(r, Throw(JsError("TypeError", "terminated")))
  /\ UNCHANGED << submissionCounter, now, issued, headers, QUICKFILE_DEBUG, client, registry, toolVars, req,
                  timer, elapsed, posts, resp, stderr >>

\* What fetch can reject with when no abort was signalled.
FetchFailures ==
  { JsError("TypeError", "fetch failed"), JsError("Error", "Network error"),
    NonErrorValue }

\* A failed fetch sent once more instead of being reported.
FetchRejectsRetry(r) ==
  /\ pc[r] = "fetch"
  /\ posts' = [posts EXCEPT ![r] = Fetch(@)]
  /\ UNCHANGED << submissionCounter, now, issued, headers, QUICKFILE_DEBUG, client, registry, toolVars, pc, req,
                  timer, elapsed, resp, result, caught, stderr >>

\* fetch rejects: the catch block clears the timer and classifies the error.
FetchRejects(r) ==
  /\ pc[r] = "fetch"
  /\ \E error \in FetchFailures : Settle(r, Throw(error))
  /\ timer' = [timer EXCEPT ![r] = "cleared"]
  /\ UNCHANGED << submissionCounter, now, issued, headers, QUICKFILE_DEBUG, client, registry, toolVars, req,
                  elapsed, posts, resp, stderr >>

\* The timeout elapses.  A timer that is still pending runs its callback:
\* controller.abort() makes the pending fetch reject with an AbortError,
\* which the catch block turns into TIMEOUT.  A cleared timer does nothing.
TimeoutElapses(r) ==
  /\ pc[r] # "idle"
  /\ ~elapsed[r]
  /\ elapsed' = [elapsed EXCEPT ![r] = TRUE]
  /\ IF timer[r] = "pending"
       THEN /\ timer' = [timer EXCEPT ![r] = "fired"]
            /\ Settle(r, Throw(JsError("AbortError", "This operation was aborted")))
       ELSE UNCHANGED << timer, pc, result, caught >>
  /\ UNCHANGED << submissionCounter, now, issued, headers, QUICKFILE_DEBUG, client, registry, toolVars, req,
                  posts, resp, stderr >>

\* ------------------------------------------------- what the vendor answers
Error1 == [ ErrorCode |-> "ERROR_1", ErrorMessage |-> "First error" ]
Error2 == [ ErrorCode |-> "ERROR_2", ErrorMessage |-> "Second error" ]

Entry(key, value) == [ key |-> key, value |-> value ]

\* The responses the transport produces while several calls interleave.
WireResponses ==
  { HttpResponse(200, "OK", "json",
      JsonObject(<< Entry("Client_Search", JObject("body1")) >>)),
    HttpResponse(200, "OK", "json",
      JsonObject(<< Entry("Errors", JArray(<< Error1, Error2 >>)) >>)),
    HttpResponse(200, "OK", "json",
      JsonObject(<< Entry("SomeOtherKey", JArray(<<>>)) >>)),
    HttpResponse(200, "OK", "invalid", JsonNull),
    HttpResponse(500, "Internal Server Error", "json",
      JsonObject(<< Entry("Errors", JArray(<< Error1 >>)) >>)) }

\* Every response up to MaxKeys top-level keys, for one call at a time.
MaxKeys == 2

ResponseKeys == { "Client_Search", "Errors", "SomeOtherKey" }

ResponseValues ==
  { JObject("body1"), JObject("body2"), JObject("undefined"),
    JArray(<<>>), JArray(<< Error1 >>), JArray(<< Error1, Error2 >>),
    JArray(<< Error2, Error1 >>), JNull, JString, JZero }

EntryLists ==
  UNION { { entries \in [1 .. n -> [ key : ResponseKeys, value : ResponseValues ]] :
              \A i, j \in 1 .. n : i # j => entries[i].key # entries[j].key } :
          n \in 0 .. MaxKeys }

StatusLines ==
  { << 200, "OK" >>, << 299, "Unassigned" >>, << 500, "Internal Server Error" >> }

AnyResponses ==
  { HttpResponse(s[1], s[2], "json", JsonObject(entries)) :
      s \in StatusLines, entries \in EntryLists }
  \cup { HttpResponse(s[1], s[2], "json", JsonNull) : s \in StatusLines }
  \cup { HttpResponse(s[1], s[2], "invalid", JsonNull) : s \in StatusLines }

FetchResolves(r) ==
  /\ pc[r] = "fetch"
  /\ \E response \in WireResponses : FetchResolvesWith(r, response)

FetchResolvesAny(r) ==
  /\ pc[r] = "fetch"
  /\ \E response \in AnyResponses : FetchResolvesWith(r, response)

\* One request() on the default instance, the clock standing still.
RequestOne(r) ==
  /\ pc[r] = "idle"
  /\ defaultClient # 0
  /\ \E inv \in Invocations :
       StartRequest(r, defaultClient, client[defaultClient], inv.methodName, inv.body,
                    inv.noBody, "", now)
  /\ UNCHANGED << client, registry, toolVars >>

\* One request() on any instance constructed so far, the clock standing still.
RequestOnInstance(r) ==
  /\ pc[r] = "idle"
  /\ \E c \in Clients, inv \in Invocations :
       StartRequest(r, c, client[c], inv.methodName, inv.body, inv.noBody, "", now)
  /\ UNCHANGED << client, registry, toolVars >>

\* ------------------------------------------------ createAuthHeader, called
\* The same account with an API key one character longer.
LongerKeyCredentials == [ LoadedCredentials EXCEPT !.apiKey = "A1B2-C3D4-E5F6z" ]

\* The credentials callers pass to createAuthHeader.
CredentialsPassed == { LoadedCredentials, RotatedCredentials, LongerKeyCredentials }

\* A direct call of the exported createAuthHeader(credentials, testMode),
\* testMode given or left out.
CreateAuthHeader ==
  /\ Len(issued) < MaxIssued
  /\ Len(headers) < MaxHeaders
  /\ \E credentials \in CredentialsPassed, testMode \in {"true", "false", "absent"},
        t \in ClockReadings :
       LET counter == IncrementCounter(submissionCounter)
           submissionNumber == generateSubmissionNumber(counter, t)
           header == createAuthHeader(credentials, testMode, submissionNumber)
       IN /\ submissionCounter' = counter
          /\ now' = t
          /\ issued' = Append(issued, submissionNumber)
          /\ headers' = Append(headers, HeaderBuilt(credentials, testMode, header))
  /\ UNCHANGED << QUICKFILE_DEBUG, client, registry, toolVars, pc, req, timer, elapsed, posts,
                  resp, result, caught, stderr >>

\* The clock reading of the first call of a process that has been running
\* for a long time.
FirstClock == 1

\* The header a long-running process built in its first call.
FirstHeader(credentials) ==
  HeaderBuilt(credentials, "absent",
              createAuthHeader(credentials, "absent",
                               generateSubmissionNumber(IncrementCounter(0), FirstClock)))

\* The auth module in a fresh process, or in one whose counter stands at
\* NearPadLimit: its first call built a header, every later call was a plain
\* generateSubmissionNumber().
AuthModuleInUse ==
  /\ submissionCounter \in {0, NearPadLimit}
  /\ now = ClockStart
  /\ issued = <<>>
  /\ headers \in IF submissionCounter = 0
                   THEN {<<>>}
                   ELSE { << FirstHeader(credentials) >> : credentials \in CredentialsPassed }
  /\ QUICKFILE_DEBUG = FALSE
  /\ client = <<>>
  /\ defaultClient = 0
  /\ credentialsFile = FileObject(LoadedCredentials)
  /\ fileReads = 0
  /\ gets = <<>>
  /\ pc = [r \in Calls |-> "idle"]
  /\ req = [r \in Calls |-> NoRequest]
  /\ timer = [r \in Calls |-> "none"]
  /\ elapsed = [r \in Calls |-> FALSE]
  /\ posts = [r \in Calls |-> 0]
  /\ resp = [r \in Calls |-> NoResponse]
  /\ result = [r \in Calls |-> Pending]
  /\ caught = [r \in Calls |-> NoError]
  /\ stderr = [r \in Calls |-> <<>>]
  /\ toolCall = [r \in Calls |-> NoToolCall]
  /\ handled = <<>>

\* ------------------------------------------- instances and their credentials
\* The options callers pass: none, {}, {testMode: true, timeout: 1}.
OptionsPassed ==
  { NoOptions, Options("absent", FALSE, 0), Options("true", TRUE, 1) }

\* What the credentials file can be made to hold.
CredentialFiles ==
  { FileMissing, FileUnreadable, FileInvalid, FileNull,
    FileObject(LoadedCredentials), FileObject(RotatedCredentials),
    FileObject(OtherCredentials),
    FileObject([LoadedCredentials EXCEPT !.accountNumber = ""]),
    FileObject([LoadedCredentials EXCEPT !.apiKey = ""]),
    FileObject([LoadedCredentials EXCEPT !.applicationId = ""]),
    FileObject(NoCredentials) }

\* The frame of the actions that leave every call and the auth module alone.
callVars ==
  << submissionCounter, now, issued, headers, QUICKFILE_DEBUG, pc, req, timer,
     elapsed, posts, resp, result, caught, stderr, toolVars >>

\* A caller calls getApiClient(options).
CallGetApiClient ==
  /\ Len(gets) < MaxGets
  /\ \E options \in OptionsPassed :
       /\ (defaultClient = 0 \/ options.given)
            => (Len(client) < MaxClients /\ fileReads < MaxReads)
       /\ getApiClient(options)
  /\ UNCHANGED << credentialsFile, callVars >>

\* new QuickFileApiClient(options), outside getApiClient: the constructor
\* loads the credentials and throws when loadCredentials throws.
NewClient ==
  /\ Len(client) < MaxClients
  /\ fileReads < MaxReads
  /\ \E options \in OptionsPassed :
       LET loaded == loadCredentials(credentialsFile)
       IN /\ fileReads' = ReadFile(credentialsFile, fileReads)
          /\ client' = IF loaded.kind = "return"
                         THEN Append(client, QuickFileApiClient(loaded.value, options))
                         ELSE client
  /\ UNCHANGED << defaultClient, credentialsFile, gets, callVars >>

\* setTestMode that also loads the credentials anew.
SetTestModeReloads ==
  /\ \E c \in Clients, enabled \in BOOLEAN :
       LET loaded == loadCredentials(credentialsFile)
       IN /\ client[c].testMode # enabled
          /\ client' = [client EXCEPT ![c].testMode = enabled,
                                      ![c].credentials =
                                        IF loaded.kind = "return" THEN loaded.value ELSE @]
  /\ UNCHANGED << registry, callVars >>

\* setTestMode reaching into the requests already sent from the instance.
SetTestModeInFlight ==
  /\ \E c \in Clients, enabled \in BOOLEAN :
       /\ client[c].testMode # enabled
       /\ client' = [client EXCEPT ![c].testMode = enabled]
       /\ req' = [ r \in Calls |->
                     IF req[r].client = c /\ pc[r] # "idle"
                       THEN [ req[r] EXCEPT !.request.payload.Header.TestMode =
                                              IF enabled THEN "true" ELSE "absent" ]
                       ELSE req[r] ]
  /\ UNCHANGED << registry, submissionCounter, now, issued, headers, QUICKFILE_DEBUG,
                  pc, timer, elapsed, posts, resp, result, caught, stderr, toolVars >>

\* client.setTestMode(enabled)
SetTestMode ==
  /\ \E c \in Clients, enabled \in BOOLEAN :
       /\ client[c].testMode # enabled
       /\ client' = [client EXCEPT ![c].testMode = enabled]
  /\ UNCHANGED << registry, callVars >>

\* What the file is changed to while the process runs.
FilesWritten ==
  { FileMissing, FileObject(LoadedCredentials), FileObject(RotatedCredentials) }

\* The user (setup.sh, an editor) rewrites or removes the credentials file.
WriteCredentialsFile ==
  /\ \E file \in FilesWritten \ {credentialsFile} : credentialsFile' = file
  /\ UNCHANGED << client, defaultClient, fileReads, gets, callVars >>

\* The process right after its modules were loaded: no instance yet.
ModuleLoaded ==
  /\ submissionCounter = 0
  /\ now = ClockStart
  /\ issued = <<>>
  /\ headers = <<>>
  /\ QUICKFILE_DEBUG \in BOOLEAN
  /\ client = <<>>
  /\ defaultClient = 0
  /\ credentialsFile \in CredentialFiles
  /\ fileReads = 0
  /\ gets = <<>>
  /\ pc = [r \in Calls |-> "idle"]
  /\ req = [r \in Calls |-> NoRequest]
  /\ timer = [r \in Calls |-> "none"]
  /\ elapsed = [r \in Calls |-> FALSE]
  /\ posts = [r \in Calls |-> 0]
  /\ resp = [r \in Calls |-> NoResponse]
  /\ result = [r \in Calls |-> Pending]
  /\ caught = [r \in Calls |-> NoError]
  /\ stderr = [r \in Calls |-> <<>>]
  /\ toolCall = [r \in Calls |-> NoToolCall]
  /\ handled = <<>>

\* process.env.QUICKFILE_DEBUG is assigned or deleted while the process runs.
SetDebugFlag ==
  /\ QUICKFILE_DEBUG' = ~QUICKFILE_DEBUG
  /\ UNCHANGED << submissionCounter, now, issued, headers, client, registry, toolVars, pc, req,
                  timer, elapsed, posts, resp, result, caught, stderr >>

\* ------------------------------------------------ handleToolError, called
\* A thrown value that is not an Error although it carries a message and a
\* code, like the object { code: 500, message: ... }.
ErrorLikeObject ==
  [ type |-> "other", name |-> "", message |-> "Something failed", code |-> "500" ]

\* What a catch block can hand to handleToolError.
ThrownValues ==
  { QuickFileApiError("Client not found", "CLIENT_404"),
    QuickFileApiError("Network timeout", "NETWORK_ERROR"),
    QuickFileApiError("", ""),
    JsError("Error", "Network timeout"),
    JsError("Error", "QuickFile API Error [CLIENT_404]: Client not found"),
    JsError("TypeError", "Cannot read properties of undefined (reading 'Report')"),
    JsError("Error", ""),
    NonErrorValue,
    ErrorLikeObject }

\* A direct call of the exported handleToolError(error).
HandleToolError ==
  /\ Len(handled) < MaxHandled
  /\ \E error \in ThrownValues :
       handled' = Append(handled, [ error |-> error, result |-> handleToolError(error) ])
  /\ UNCHANGED << submissionCounter, now, issued, headers, QUICKFILE_DEBUG, client,
                  registry, toolCall, pc, req, timer, elapsed, posts, resp, result,
                  caught, stderr >>

\* -------------------------------------------- the envelope of any request
\* Method names of one, two and three parts, one of them in lower case.
MethodNames ==
  { << "Client", "Search" >>, << "System", "GetAccountDetails" >>,
    << "Report", "Subscriptions" >>, << "Invoice", "Get", "PDF" >>,
    << "client", "search" >>, << "Ping" >> }

\* The body arguments and noBody options callers pass.
BodiesPassed == { EmptyBody, ParamsBody, AccountDetailsBody("6131405546") }
NoBodyOptions == { "absent", "false", "true" }

\* request(methodName, body, options) on the default instance for any
\* method, body and noBody option, the clock standing still.
RequestAny(r) ==
  /\ pc[r] = "idle"
  /\ defaultClient # 0
  /\ \E methodName \in MethodNames, body \in BodiesPassed, option \in NoBodyOptions :
       StartRequest(r, defaultClient, client[defaultClient], methodName, body,
                    NoBodySet(option), "", now)
  /\ UNCHANGED << client, registry, toolVars >>

\* ---------------------------------------------------------- specifications
\* Concurrent request() and tool calls against the transport.
Next ==
  \E r \in Calls :
    \/ Request(r)
    \/ HandleSystemTool(r)
    \/ FetchResolves(r)
    \/ DebugTextDelivered(r)
    \/ JsonDelivered(r)
    \/ BodyReadFails(r)
    \/ FetchRejects(r)
    \/ TimeoutElapses(r)

Spec == Init /\ [][Next]_vars

\* The auth module alone: generateSubmissionNumber called again and again.
AuthNext == GenerateSubmissionNumber

AuthSpec == Init /\ [][AuthNext]_vars

\* One call from dispatch to settlement, with everything the transport and
\* the timer can do to it.
CallNext ==
  \/ Request(1)
  \/ HandleSystemTool(1)
  \/ FetchResolves(1)
  \/ DebugTextDelivered(1)
  \/ JsonDelivered(1)
  \/ BodyReadFails(1)
  \/ FetchRejects(1)
  \/ TimeoutElapses(1)
  \/ ToolReturns(1)

CallSpec == Init /\ [][CallNext]_vars

\* One call at a time, answered by any response whose body arrives.
DecodeNext ==
  \/ RequestOne(1)
  \/ FetchResolvesAny(1)
  \/ DebugTextDelivered(1)
  \/ JsonDelivered(1)

DecodeSpec == Init /\ [][DecodeNext]_vars

\* One call on the default instance from dispatch to settlement, answered by
\* any response or by a failure of the transport, of the body read or of the
\* timer.
LifecycleNext ==
  \/ RequestOne(1)
  \/ FetchResolvesAny(1)
  \/ DebugTextDelivered(1)
  \/ JsonDelivered(1)
  \/ BodyReadFails(1)
  \/ FetchRejects(1)
  \/ TimeoutElapses(1)

LifecycleSpec == Init /\ [][LifecycleNext]_vars

\* The instance cache: getApiClient calls while the credentials file
\* changes under the process.
ClientNext ==
  \/ CallGetApiClient
  \/ WriteCredentialsFile

ClientSpec == ModuleLoaded /\ [][ClientNext]_vars

\* What request() sends for any method, body and noBody option.
EnvelopeNext == RequestAny(1)

EnvelopeSpec == Init /\ [][EnvelopeNext]_vars

\* The auth module used directly: headers built for any credentials, with
\* plain submission numbers generated in between.
HeaderNext ==
  \/ CreateAuthHeader
  \/ GenerateSubmissionNumber

HeaderSpec == AuthModuleInUse /\ [][HeaderNext]_vars

\* A session of the server: instances are constructed and switched to test
\* mode, the credentials file changes, and one call runs on an instance.
SessionNext ==
  \/ NewClient
  \/ SetTestMode
  \/ WriteCredentialsFile
  \/ HandleSystemTool(1)
  \/ RequestOnInstance(1)
  \/ FetchResolves(1)
  \/ DebugTextDelivered(1)
  \/ JsonDelivered(1)
  \/ FetchRejects(1)

SessionSpec == ModuleLoaded /\ [][SessionNext]_vars

\* Calls on the default instance while the debug flag is switched on and off
\* between and during them.
DebugNext ==
  \/ SetDebugFlag
  \/ \E r \in Calls :
       \/ RequestOne(r)
       \/ FetchResolves(r)
       \/ DebugTextDelivered(r)
       \/ JsonDelivered(r)
       \/ FetchRejects(r)

DebugSpec == Init /\ [][DebugNext]_vars

\* handleToolError called on whatever a catch block can catch.
ToolErrorNext == HandleToolError

ToolErrorSpec == Init /\ [][ToolErrorNext]_vars

\* One tool call through handleToolCall, from a process that has no
\* instance yet, with everything the transport and the timer can do to the
\* request it makes.
ToolNext ==
  \/ HandleToolCall(1)
  \/ FetchResolvesAny(1)
  \/ DebugTextDelivered(1)
  \/ JsonDelivered(1)
  \/ BodyReadFails(1)
  \/ FetchRejects(1)
  \/ TimeoutElapses(1)
  \/ ToolReturns(1)

ToolSpec == ModuleLoaded /\ [][ToolNext]_vars

\* Instances obtained from getApiClient, with or without options, and
\* requests on them while their test mode is switched on and off.
TestModeNext ==
  \/ CallGetApiClient
  \/ SetTestMode
  \/ \E r \in Calls :
       \/ RequestOnInstance(r)
       \/ TimeoutElapses(r)

TestModeSpec == ModuleLoaded /\ [][TestModeNext]_vars

\* ------------------------------------------------------------------ claims
Started(r) == pc[r] # "idle"
Settled(r) == pc[r] = "done"
HeaderOf(r) == req[r].request.payload.Header
HeadersReceived(r) == resp[r].text # "none"

\* C1: no two request() calls, however they interleave and on whichever
\* instances, send the same SubmissionNumber in their header.
C1_DistinctSubmissionNumbers ==
  \A r1, r2 \in Calls :
    (r1 # r2 /\ Started(r1) /\ Started(r2))
      => HeaderOf(r1).SubmissionNumber # HeaderOf(r2).SubmissionNumber

\* Two calls on different instances are in flight together and both took
\* their submission number in the same clock millisecond.
C1_Witness ==
  /\ \A r \in Calls : pc[r] = "fetch"
  /\ \E r1, r2 \in Calls : req[r1].client # req[r2].client
  /\ now = ClockStart

\* C2: any two calls of generateSubmissionNumber return different texts, for
\* any number of calls (beyond 9999 too) and any non-decreasing clock, also
\* when many calls read the same millisecond.
C2_AllIssuedDistinct ==
  \A i, j \in DOMAIN issued : i # j => issued[i] # issued[j]

\* The counter went from 4 to 5 digits while the clock stood still.
C2_Witness ==
  /\ Len(issued) >= 3
  /\ now = ClockStart
  /\ Len(issued[Len(issued)]) > Len(issued[1])

\* C3: once the timeout has elapsed since dispatch, the call has resolved or
\* rejected, whatever the transport does.
C3_SettledOnceTimeoutElapsed ==
  \A r \in Calls : elapsed[r] => Settled(r)

\* C4: every request() call issues exactly one HTTP POST, whatever its
\* outcome; a failed call is never sent again.
C4_ExactlyOnePost ==
  \A r \in Calls : posts[r] = (IF Started(r) THEN 1 ELSE 0)

\* A call whose fetch failed was rejected as a network error, with no
\* response ever received.
C4_Witness ==
  \E r \in Calls :
    /\ Settled(r)
    /\ result[r].state = "rejected"
    /\ result[r].error.code = "NETWORK_ERROR"
    /\ ~HeadersReceived(r)

\* C5: nothing written to the log contains the account number or the MD5
\* value of any request, and every logged request shows the application id.
C5_LogRedacted ==
  \A r \in Calls :
    \A i \in DOMAIN stderr[r] :
      /\ \A c \in Clients : client[c].credentials.accountNumber \notin stderr[r][i].strings
      /\ \A r2 \in Calls :
           Started(r2) => HeaderOf(r2).Authentication.MD5Value \notin stderr[r][i].strings
      /\ stderr[r][i].tag = "Request"
           => HeaderOf(r).Authentication.ApplicationID \in stderr[r][i].strings

\* C6: when the timeout timer fires while fetch is pending, request()
\* rejects with code TIMEOUT and a message naming the configured timeout.
C6_TimerFiredMeansTimeout ==
  \A r \in Calls :
    timer[r] = "fired"
      => /\ result[r].state = "rejected"
         /\ result[r].error.type = "QuickFileApiError"
         /\ result[r].error.code = "TIMEOUT"
         /\ result[r].error.message
              = "Request timeout after "
                  \o (IF req[r].client = 1 THEN "30000" ELSE "1") \o "ms"

\* The timer of a call on the instance configured with timeout 1 has fired.
C6_Witness ==
  \E r \in Calls : timer[r] = "fired" /\ req[r].client = 2 /\ Settled(r)

\* The error a vendor error list is reported as.
ExpectedVendorError(list) ==
  CASE list = << Error1 >> -> QuickFileApiError("First error", "ERROR_1")
    [] list = << Error1, Error2 >> ->
         QuickFileApiError("First error; Second error", "ERROR_1")
    [] list = << Error2, Error1 >> ->
         QuickFileApiError("Second error; First error", "ERROR_2")

\* The call has settled on a 2xx response whose body parsed to a JSON object.
DecodedObject(r) ==
  /\ Settled(r)
  /\ HeadersReceived(r)
  /\ resp[r].status \in 200 .. 299
  /\ resp[r].text = "json"
  /\ resp[r].data.top = "object"

EntriesOf(r) == resp[r].data.entries

CarriesVendorErrors(r) ==
  \E i \in DOMAIN EntriesOf(r) :
    /\ EntriesOf(r)[i].key = "Errors"
    /\ EntriesOf(r)[i].value.kind = "array"
    /\ EntriesOf(r)[i].value.list # <<>>

\* C7: a 2xx response with a non-empty Errors list rejects with the first
\* entry's ErrorCode and all ErrorMessages joined by "; ", also when the
\* response holds a well-formed entry for the requested method.
C7_VendorErrorsReject ==
  \A r \in Calls :
    DecodedObject(r) =>
      \A i \in DOMAIN EntriesOf(r) :
        ( /\ EntriesOf(r)[i].key = "Errors"
          /\ EntriesOf(r)[i].value.kind = "array"
          /\ EntriesOf(r)[i].value.list # <<>> )
          => result[r] = Rejected(ExpectedVendorError(EntriesOf(r)[i].value.list))

\* A response with the method's own entry first and two vendor errors after
\* it was rejected.
C7_Witness ==
  \E r \in Calls :
    /\ DecodedObject(r)
    /\ MethodKey(req[r].methodName) = "Client_Search"
    /\ EntriesOf(r) = << Entry("Client_Search", JObject("body1")),
                         Entry("Errors", JArray(<< Error2, Error1 >>)) >>
    /\ result[r].state = "rejected"

\* C8: a non-2xx response rejects with the decimal status as code and
\* "HTTP <status>: <statusText>" as message, whatever its body holds.
C8_HttpStatusRejects ==
  \A r \in Calls :
    (Settled(r) /\ HeadersReceived(r) /\ resp[r].status \notin 200 .. 299)
      => result[r] = Rejected(
           QuickFileApiError(
             "HTTP " \o ToString(resp[r].status) \o ": " \o resp[r].statusText,
             ToString(resp[r].status)))

\* C9: a 2xx response without vendor errors in which no key other than
\* "Errors" (the method name included) maps to a non-array object rejects
\* with PARSE_ERROR.
C9_NoEntryMeansParseError ==
  \A r \in Calls :
    ( /\ DecodedObject(r)
      /\ ~CarriesVendorErrors(r)
      /\ \A i \in DOMAIN EntriesOf(r) :
           EntriesOf(r)[i].key # "Errors" => EntriesOf(r)[i].value.kind # "object" )
      => /\ result[r].state = "rejected"
         /\ result[r].error.code = "PARSE_ERROR"

\* The first entry, in key order, that is not "Errors" and is an object.
IsFirstObjectEntry(r, i) ==
  /\ EntriesOf(r)[i].key # "Errors"
  /\ EntriesOf(r)[i].value.kind = "object"
  /\ \A j \in 1 .. i - 1 :
       EntriesOf(r)[j].key = "Errors" \/ EntriesOf(r)[j].value.kind # "object"

\* C10: the entry under the requested method name is used when it is an
\* object; otherwise the first key that is not "Errors" and maps to a
\* non-array object; the call resolves with that entry's Body.
C10_UnwrapsMethodEntryThenFirstObject ==
  \A r \in Calls :
    (DecodedObject(r) /\ ~CarriesVendorErrors(r)) =>
      \A i \in DOMAIN EntriesOf(r) :
        ( \/ /\ EntriesOf(r)[i].key = MethodKey(req[r].methodName)
             /\ EntriesOf(r)[i].value.kind = "object"
          \/ /\ Member(EntriesOf(r), MethodKey(req[r].methodName)).kind # "object"
             /\ IsFirstObjectEntry(r, i) )
          => result[r] = Resolved(EntriesOf(r)[i].value.Body)

\* The codes a rejection of call r may carry: the four fixed ones, the
\* decimal status of a non-2xx response, an ErrorCode the response lists.
AllowedCodes(r) ==
  {"TIMEOUT", "NETWORK_ERROR", "PARSE_ERROR", "UNKNOWN"}
    \cup (IF HeadersReceived(r) /\ resp[r].status \notin 200 .. 299
           THEN {ToString(resp[r].status)} ELSE {})
    \cup UNION { { EntriesOf(r)[i].value.list[j].ErrorCode :
                    j \in DOMAIN EntriesOf(r)[i].value.list } :
                i \in { k \in DOMAIN EntriesOf(r) : EntriesOf(r)[k].key = "Errors" } }

\* The promise of call r is settled in one of the terminal outcomes.
TerminalOutcome(r) ==
  \/ /\ result[r].state = "resolved"
     /\ result[r].error = NoError
     /\ \E i \in DOMAIN EntriesOf(r) :
          /\ EntriesOf(r)[i].key # "Errors"
          /\ result[r].value = EntriesOf(r)[i].value.Body
  \/ /\ result[r].state = "rejected"
     /\ result[r].error.type = "QuickFileApiError"
     /\ result[r].error.name = "QuickFileApiError"
     /\ result[r].error.code \in AllowedCodes(r)

\* C11: a request() call is pending from dispatch until it settles; it
\* settles once, either resolved with the Body member of a response entry or
\* rejected with a QuickFileApiError whose code is the HTTP status, a vendor
\* error code, TIMEOUT, NETWORK_ERROR, PARSE_ERROR or UNKNOWN; once settled
\* its outcome never changes and nothing is sent again.
C11_OneTerminalOutcome ==
  /\ [](\A r \in Calls :
         IF Settled(r) THEN TerminalOutcome(r) ELSE result[r] = Pending)
  /\ [][\A r \in Calls :
          Settled(r) => /\ result'[r] = result[r]
                        /\ pc'[r] = pc[r]
                        /\ posts'[r] = posts[r]]_vars

\* A call that passed both internal awaits (the debug read of the body and
\* response.json()) has resolved, and the timeout ran out afterwards.
C11_Witness ==
  \E r \in Calls :
    /\ Settled(r)
    /\ result[r].state = "resolved"
    /\ Len(stderr[r]) = 4
    /\ elapsed[r]

\* C12: a failure caught by request() that is an Error other than an abort
\* is reported as NETWORK_ERROR with that Error's own message; a caught
\* value that is not an Error object is reported as UNKNOWN.
C12_TransportFailureCodes ==
  \A r \in Calls :
    Settled(r) =>
      /\ (caught[r].type = "Error" /\ caught[r].name # "AbortError")
           => result[r] = Rejected(QuickFileApiError(caught[r].message, "NETWORK_ERROR"))
      /\ caught[r].type = "other"
           => /\ result[r].state = "rejected"
              /\ result[r].error.type = "QuickFileApiError"
              /\ result[r].error.code = "UNKNOWN"

\* fetch rejected with a value that is not an Error object, before any
\* response was received.
C12_Witness ==
  \E r \in Calls :
    /\ Settled(r)
    /\ ~HeadersReceived(r)
    /\ caught[r] = NonErrorValue
    /\ result[r].error.code = "UNKNOWN"

\* C13: request() resolves only when the response had a 2xx status, its JSON
\* carried no non-empty Errors list and a response entry (a key other than
\* "Errors" holding a non-array object) was found in it.
C13_ResolvesOnlyOnLocatedEntry ==
  \A r \in Calls :
    (Settled(r) /\ result[r].state = "resolved")
      => /\ DecodedObject(r)
         /\ ~CarriesVendorErrors(r)
         /\ \E i \in DOMAIN EntriesOf(r) :
              /\ EntriesOf(r)[i].key # "Errors"
              /\ EntriesOf(r)[i].value.kind = "object"

\* The getApiClient calls before call i that returned an instance, and those
\* among them that supplied options.
ReturnedBefore(i) == { j \in 1 .. i - 1 : gets[j].returned # 0 }
StoredBefore(i) == { j \in ReturnedBefore(i) : gets[j].options.given }
Latest(S) == CHOOSE j \in S : \A k \in S : k <= j
Earliest(S) == CHOOSE j \in S : \A k \in S : j <= k

\* C14: a getApiClient call with options returns an instance no earlier call
\* returned, built from those options, and it becomes the default; a call
\* without options returns the instance of the latest earlier call that
\* supplied options, or else the instance of the first call; the default is
\* always the instance returned last.
C14_LastWriteWins ==
  /\ \A i \in DOMAIN gets :
       gets[i].returned # 0 =>
         IF gets[i].options.given
           THEN /\ \A j \in ReturnedBefore(i) : gets[j].returned # gets[i].returned
                /\ client[gets[i].returned].timeout
                     = (IF gets[i].options.timeoutGiven
                          THEN gets[i].options.timeout ELSE DefaultTimeout)
           ELSE IF StoredBefore(i) # {}
             THEN gets[i].returned = gets[Latest(StoredBefore(i))].returned
             ELSE ReturnedBefore(i) # {}
                    => gets[i].returned = gets[Earliest(ReturnedBefore(i))].returned
  /\ \A i \in DOMAIN gets :
       (i = Len(gets) /\ gets[i].returned # 0) => defaultClient = gets[i].returned

\* A first call without options, a call with options that replaced the
\* default, and two calls without options that both returned the replacement.
C14_Witness ==
  /\ Len(gets) = 4
  /\ ~gets[1].options.given /\ gets[1].returned = 1
  /\ gets[2].options.given /\ gets[2].returned = 2
  /\ ~gets[3].options.given /\ gets[3].returned = 2
  /\ ~gets[4].options.given /\ gets[4].returned = 2

\* Every API key the process has come to hold.
KeysHeld == { client[c].credentials.apiKey : c \in Clients }

\* The string scalars call r puts on the wire: URL, HTTP headers, payload.
Outbound(r) ==
  {req[r].url} \cup {FetchHeaders.ContentType, FetchHeaders.Accept}
    \cup RequestStrings(req[r].request)

\* The string scalars of the tool result of call r.
ToolStrings(r) ==
  IF Settled(r) /\ req[r].tool # ""
    THEN { SystemToolResult(result[r]).content[i].text :
             i \in DOMAIN SystemToolResult(result[r]).content }
           \cup {result[r].error.message, result[r].error.code}
    ELSE {}

WithoutDigest(header) == [header EXCEPT !.Authentication.MD5Value = ""]

\* The header createAuthHeader would have built in a run holding apiKey
\* instead, everything else being the same.
HeaderUnderKey(built, apiKey) ==
  createAuthHeader([built.credentials EXCEPT !.apiKey = apiKey], built.testMode,
                   built.header.SubmissionNumber)

\* C15: no API key held by the process is a value of any outbound request
\* (URL, HTTP headers, payload), of any log line or of any tool result; and
\* the header built in a run that differs only in the API key differs only
\* in its MD5Value.
C15_ApiKeyStaysInside ==
  /\ \A r \in Calls : \A k \in KeysHeld :
       /\ k \notin Outbound(r)
       /\ \A i \in DOMAIN stderr[r] : k \notin stderr[r][i].strings
       /\ k \notin ToolStrings(r)
  /\ \A i \in DOMAIN headers :
       \A k \in {LoadedCredentials.apiKey, RotatedCredentials.apiKey,
                  OtherCredentials.apiKey} :
         /\ WithoutDigest(HeaderUnderKey(headers[i], k)) = WithoutDigest(headers[i].header)
         /\ (HeaderUnderKey(headers[i], k) = headers[i].header)
              <=> (k = headers[i].credentials.apiKey)

\* In debug mode a tool call ran to a successful result on an instance that
\* holds the rotated key while another instance still holds the old one.
C15_Witness ==
  /\ QUICKFILE_DEBUG
  /\ Settled(1)
  /\ req[1].tool = "quickfile_system_get_account"
  /\ SystemToolResult(result[1]).isError = "absent"
  /\ Len(stderr[1]) = 4
  /\ client[req[1].client].credentials.apiKey = RotatedCredentials.apiKey
  /\ \E c \in Clients : client[c].credentials.apiKey = LoadedCredentials.apiKey

\* The text the digest of header i is taken of: account number, API key and
\* the header's own submission number, in this order, nothing in between.
DigestInput(i) ==
  headers[i].credentials.accountNumber \o headers[i].credentials.apiKey
    \o headers[i].header.SubmissionNumber

DigestOfOwnSubmission ==
  \A i \in DOMAIN headers :
    headers[i].header.Authentication.MD5Value = "md5(" \o DigestInput(i) \o ")"

C17_NoBodyLeavesKeyOut ==
  \A r \in Calls :
    Started(r) =>
      /\ req[r].request.payload.Header.MessageType = "Request"
      /\ req[r].request.payload.Body
           = (IF req[r].args.noBody THEN AbsentBody ELSE req[r].args.body)

\* A call was made with noBody set and search parameters as its body.
C17_Witness ==
  \E r \in Calls :
    /\ Started(r)
    /\ req[r].args.noBody
    /\ req[r].args.body = ParamsBody
    /\ posts[r] = 1

\* C18: every header createAuthHeader builds has MessageType "Request" and
\* has a TestMode field, holding true, exactly when the testMode argument was
\* true; for false or a missing argument the field is absent, not false.
C18_TestModeOnlyWhenTrue ==
  \A i \in DOMAIN headers :
    /\ headers[i].header.MessageType = "Request"
    /\ headers[i].header.TestMode
         = (IF headers[i].testMode = "true" THEN "true" ELSE "absent")

\* Headers were built with testMode true and with testMode left out.
C18_Witness ==
  \E i, j \in DOMAIN headers :
    /\ headers[i].testMode = "true"
    /\ headers[j].testMode = "absent"
    /\ headers[i].header.SubmissionNumber # headers[j].header.SubmissionNumber

\* The URL each method name is requested at.
ExpectedUrl(methodName) ==
  CASE methodName = << "Client", "Search" >> ->
         "https://api.quickfile.co.uk/1_2/client/search"
    [] methodName = << "System", "GetAccountDetails" >> ->
         "https://api.quickfile.co.uk/1_2/system/getaccountdetails"
    [] methodName = << "Report", "Subscriptions" >> ->
         "https://api.quickfile.co.uk/1_2/report/subscriptions"
    [] methodName = << "Invoice", "Get", "PDF" >> ->
         "https://api.quickfile.co.uk/1_2/invoice/getpdf"
    [] methodName = << "client", "search" >> ->
         "https://api.quickfile.co.uk/1_2/client/search"
    [] methodName = << "Ping" >> ->
         "https://api.quickfile.co.uk/1_2/ping/"

\* C19: the URL of a request is the base URL and version segment, the
\* lowercased part before the first underscore, a slash, and the lowercased
\* concatenation of all remaining parts, for every method name.
C19_UrlFromMethodName ==
  \A r \in Calls : Started(r) => req[r].url = ExpectedUrl(req[r].methodName)

\* A method name of three parts was requested.
C19_Witness ==
  \E r \in Calls :
    /\ Started(r)
    /\ Len(req[r].methodName) = 3
    /\ req[r].url = "https://api.quickfile.co.uk/1_2/invoice/getpdf"

\* The header of the request call r sent is the one createAuthHeader builds
\* from the credentials of the instance the call runs on.
UsesCredentialsOf(r, instance) ==
  LET header == req[r].request.payload.Header
  IN header.Authentication =
       createAuthHeader(instance.credentials, "false",
                        header.SubmissionNumber).Authentication

\* C20: an instance keeps the credentials its constructor loaded, and
\* getAccountNumber keeps returning their account number: no step (request,
\* setTestMode, getApiClient, a change of the credentials file) changes the
\* credentials of an existing instance; a new instance holds what
\* loadCredentials returns for the file of that moment; a request that starts
\* is signed with the credentials of its instance; and the file is read only
\* in a step that runs a constructor, once, the step adding an instance
\* exactly when loadCredentials returns.
C20_CredentialsFixedAtConstruction ==
  [][ /\ Len(client') >= Len(client)
      /\ \A c \in DOMAIN client' :
           IF c \in DOMAIN client
             THEN /\ client'[c].credentials = client[c].credentials
                  /\ getAccountNumber(c)' = getAccountNumber(c)
             ELSE /\ loadCredentials(credentialsFile) = Return(client'[c].credentials)
                  /\ getAccountNumber(c)' = credentialsFile.credentials.accountNumber
                  /\ fileReads' = fileReads + 1
      /\ \A r \in Calls :
           (pc[r] = "idle" /\ pc'[r] # "idle")
             => UsesCredentialsOf(r, client[req[r].client])'
      /\ fileReads' # fileReads
           => /\ fileReads' = fileReads + 1
              /\ credentialsFile' = credentialsFile
              /\ IF loadCredentials(credentialsFile).kind = "return"
                   THEN Len(client') = Len(client) + 1
                   ELSE client' = client
    ]_vars

\* Instance 1 was constructed without test mode from another account's file;
\* since then the file was rewritten for a different account, a second
\* instance was constructed from it, instance 1 was switched to test mode and
\* a request on it has settled, signed for the account it was constructed
\* with.
C20_Witness ==
  /\ Len(client) = 2
  /\ client[1].credentials = OtherCredentials
  /\ client[1].testMode /\ client[1].timeout = DefaultTimeout
  /\ client[2].credentials = LoadedCredentials
  /\ credentialsFile = FileObject(RotatedCredentials)
  /\ Settled(1)
  /\ req[1].client = 1
  /\ req[1].request.payload.Header.TestMode = "true"
  /\ req[1].request.payload.Header.Authentication.AccNumber
       = OtherCredentials.accountNumber
  /\ getAccountNumber(1) = OtherCredentials.accountNumber
  /\ fileReads = 2

\* The tags of the lines call r has written, in order.
LogTags(log) == [ i \in DOMAIN log |-> log[i].tag ]

\* C21: the flag is read when the call logs, never remembered.  The step
\* that dispatches a call writes the URL and the redacted request exactly
\* when the flag is set in that step, whatever it was before; the step in
\* which fetch resolves goes on to write the response status and body
\* exactly when the flag is set in that step; no other step writes to the
\* log.  So a call during which the flag is unset writes nothing, and a call
\* during which it is set writes the request and, once the response has
\* arrived, its status and body.
C21_DebugFlagReadAtCallTime ==
  [][\A r \in Calls :
       /\ (pc[r] = "idle" /\ pc'[r] # "idle")
            => IF QUICKFILE_DEBUG
                 THEN /\ LogTags(stderr'[r]) = << "URL", "Request" >>
                      /\ req'[r].url \in stderr'[r][1].strings
                      /\ HeaderOf(r)'.SubmissionNumber \in stderr'[r][2].strings
                      /\ HeaderOf(r)'.Authentication.MD5Value \notin stderr'[r][2].strings
                 ELSE stderr'[r] = <<>>
       /\ (pc[r] = "fetch" /\ resp'[r] # resp[r])
            => /\ stderr'[r] = stderr[r]
               /\ (pc'[r] = "debugText") = QUICKFILE_DEBUG
       /\ pc[r] = "debugText"
            => \/ pc'[r] = "debugText" /\ stderr'[r] = stderr[r]
               \/ /\ pc'[r] # "debugText"
                  /\ LogTags(stderr'[r])
                       = LogTags(stderr[r]) \o << "Response Status", "Response" >>
                  /\ ToString(resp[r].status)
                       \in stderr'[r][Len(stderr'[r]) - 1].strings
       /\ (pc[r] \notin {"idle", "debugText"}) => stderr'[r] = stderr[r]
    ]_vars

\* The flag is set now; call 1 ran while it was set and wrote all four
\* lines, call 2 ran afterwards while it was unset, settled on a response
\* and wrote nothing.
C21_Witness ==
  /\ QUICKFILE_DEBUG
  /\ Settled(1) /\ Settled(2)
  /\ LogTags(stderr[1]) = << "URL", "Request", "Response Status", "Response" >>
  /\ HeadersReceived(2)
  /\ stderr[2] = <<>>
  /\ Len(issued) = 2 /\ issued[1] = HeaderOf(1).SubmissionNumber

\* String.prototype.includes
Contains(text, part) ==
  \E i \in 1 .. (Len(text) - Len(part) + 1) :
    SubSeq(text, i, i + Len(part) - 1) = part

\* The file exists and its content parses, to an object or to null.
FileParses(file) == file.kind \in {"null", "object"}

\* One of the three fields is missing from the parsed content or empty in it.
FieldMissing(file) ==
  \/ file.credentials.accountNumber = ""
  \/ file.credentials.apiKey = ""
  \/ file.credentials.applicationId = ""

\* This step is a getApiClient call that ran the constructor.
ConstructorRan ==
  /\ Len(gets') > Len(gets)
  /\ defaultClient = 0 \/ gets'[Len(gets')].options.given

\* C22: loadCredentials returns credentials whose three fields are all
\* non-empty, and exactly the file's, or throws: a message holding the
\* expected path when the file is absent, the invalid-JSON error when the
\* content does not parse, the missing-fields error when the content parses
\* and any of the three fields is missing or empty.  Stated of every
\* getApiClient call that runs the constructor, on the file of that moment.
C22_CredentialsCompleteOrError ==
  [][ ConstructorRan
        => LET got == gets'[Len(gets')]
           IN /\ got.returned # 0
                   => /\ client'[got.returned].credentials = credentialsFile.credentials
                      /\ ~FieldMissing(credentialsFile)
                      /\ got.error = NoError
              /\ got.returned = 0 => got.error.type = "Error"
              /\ credentialsFile.kind = "missing"
                   => /\ got.returned = 0
                      /\ Contains(got.error.message, CREDENTIALS_PATH)
              /\ credentialsFile.kind = "invalid"
                   => /\ got.returned = 0
                      /\ Contains(got.error.message, "Invalid JSON in credentials file")
              /\ (FileParses(credentialsFile) /\ FieldMissing(credentialsFile))
                   => /\ got.returned = 0
                      /\ Contains(got.error.message,
                                  "Missing required credential fields")
    ]_vars

\* The text handleToolError is to produce for a thrown value.
ExpectedErrorText(error) ==
  CASE error.type = "QuickFileApiError" ->
         "QuickFile API Error [" \o error.code \o "]: " \o error.message
    [] error.type = "Error" -> "Error: " \o error.message
    [] OTHER -> "Error: Unknown error"

\* C23: handleToolError returns isError true and exactly one text item: the
\* API error text with code and message for a QuickFileApiError, "Error: "
\* and the message for any other Error, "Error: Unknown error" for a value
\* that is not an Error; the text of an API error is never the text of
\* another error, whatever their messages.
C23_ToolErrorTexts ==
  /\ \A i \in DOMAIN handled :
       /\ handled[i].result.isError = "true"
       /\ Len(handled[i].result.content) = 1
       /\ handled[i].result.content[1].type = "text"
       /\ handled[i].result.content[1].text = ExpectedErrorText(handled[i].error)
       /\ StartsWith(handled[i].result.content[1].text, "QuickFile API Error [")
            = (handled[i].error.type = "QuickFileApiError")
  /\ \A i, j \in DOMAIN handled :
       ( /\ handled[i].error.type = "QuickFileApiError"
         /\ handled[j].error.type # "QuickFileApiError" )
         => handled[i].result.content[1].text # handled[j].result.content[1].text

\* handleToolError was given an API error and then a plain Error whose
\* message is the very text an API error is reported with.
C23_Witness ==
  /\ Len(handled) = 2
  /\ handled[1].error = QuickFileApiError("Client not found", "CLIENT_404")
  /\ handled[2].error
       = JsError("Error", "QuickFile API Error [CLIENT_404]: Client not found")

\* C24: a handleToolCall invocation never rejects: its promise is pending
\* or resolved with a result of one text item and an isError that is true or
\* absent, for every tool name and every failure underneath, a failure to
\* load the credentials included.
C24_ToolCallsNeverReject ==
  \A r \in Calls :
    /\ toolCall[r].state # "rejected"
    /\ toolCall[r].state = "resolved"
         => /\ Len(toolCall[r].result.content) = 1
            /\ toolCall[r].result.content[1].type = "text"
            /\ toolCall[r].result.isError \in {"true", "absent"}

\* Call r is the request of a tool call that has returned.
ToolReturned(r) == Settled(r) /\ toolCall[r].state = "resolved"

\* C27: when the request() under quickfile_report_vat_obligations rejects,
\* for whatever reason, the tool returns a result that is not an error and
\* whose text has count 0, an empty obligations list and a message; when the
\* request() under any other report tool rejects, the tool returns the
\* isError result handleToolError makes of the rejection; and the request()
\* itself is rejected in both cases: a response that is not 2xx, or no
\* response at all, never leaves it resolved.
C27_OnlyVatObligationsSuppresses ==
  \A r \in Calls :
    /\ (ToolReturned(r) /\ result[r].state = "rejected"
          /\ toolCall[r].tool = "quickfile_report_vat_obligations")
         => /\ toolCall[r].result.isError = "absent"
            /\ Len(toolCall[r].result.content) = 1
            /\ Contains(toolCall[r].result.content[1].text, "\"count\": 0")
            /\ Contains(toolCall[r].result.content[1].text, "\"obligations\": []")
            /\ Contains(toolCall[r].result.content[1].text,
                        "\"message\": \"VAT obligations not available.")
    /\ (ToolReturned(r) /\ result[r].state = "rejected"
          /\ toolCall[r].tool # "quickfile_report_vat_obligations")
         => /\ toolCall[r].result.isError = "true"
            /\ toolCall[r].result.content[1].text
                 = "QuickFile API Error [" \o result[r].error.code \o "]: "
                     \o result[r].error.message
    /\ (Settled(r) /\ toolCall[r].state # "none"
          /\ (~HeadersReceived(r) \/ resp[r].status \notin 200 .. 299
                \/ resp[r].text = "invalid" \/ CarriesVendorErrors(r)))
         => result[r].state = "rejected"

\* The request under quickfile_report_vat_obligations timed out, was
\* rejected with TIMEOUT, and the tool returned its count-0 result.
C27_Witness ==
  /\ ToolReturned(1)
  /\ toolCall[1].tool = "quickfile_report_vat_obligations"
  /\ result[1].state = "rejected"
  /\ result[1].error.code = "TIMEOUT"
  /\ toolCall[1].result.isError = "absent"

\* C25: a call that settled on a 2xx response whose body is not valid JSON
\* is rejected with a QuickFileApiError of code PARSE_ERROR.
C25_InvalidJsonIsParseError ==
  \A r \in Calls :
    ( /\ Settled(r)
      /\ HeadersReceived(r)
      /\ resp[r].status \in 200 .. 299
      /\ resp[r].text = "invalid"
      /\ caught[r].name = "SyntaxError" )
      => /\ result[r].state = "rejected"
         /\ result[r].error.type = "QuickFileApiError"
         /\ result[r].error.code = "PARSE_ERROR"

\* C26: every call that generates a submission id increases the counter by
\* exactly one and returns the base-36 text of the clock reading followed by
\* the counter as exactly 4 zero-padded decimal digits, however many ids the
\* process has generated before.
C26_FourDigitCounter ==
  [][ Len(issued') > Len(issued)
        => LET id == issued'[Len(issued')]
               clock == NumberToString(now', 36)
           IN /\ Len(issued') = Len(issued) + 1
              /\ submissionCounter' = submissionCounter + 1
              /\ StartsWith(id, clock)
              /\ Len(id) = Len(clock) + 4
              /\ \E digits \in { padStart(NumberToString(n, 10), 4) :
                                   n \in {submissionCounter', submissionCounter' % 10000} } :
                   id = clock \o digits
    ]_vars

\* C28: a call that has settled, by whatever path, has no pending timer: its
\* timer was cleared or has fired; a timer is pending only while its call
\* awaits fetch, so no more timers are pending than calls are in flight; and
\* no timer fires once its call has settled.
C28_NoTimerOutlivesItsCall ==
  /\ [](\A r \in Calls :
         /\ Settled(r) => timer[r] \in {"cleared", "fired"}
         /\ timer[r] = "pending" => pc[r] = "fetch"
         /\ ~Started(r) => timer[r] = "none")
  /\ [][\A r \in Calls :
          (timer'[r] = "fired" /\ timer[r] # "fired")
            => (~Settled(r) /\ timer[r] = "pending")]_vars

\* Both calls have settled and the timeout has run out for both: one was
\* aborted by its timer, the other had resolved before and its timer, long
\* cleared, did nothing.
C28_Witness ==
  /\ \A r \in Calls : Settled(r) /\ elapsed[r]
  /\ \E r1, r2 \in Calls :
       /\ timer[r1] = "fired" /\ result[r1].error.code = "TIMEOUT"
       /\ timer[r2] = "cleared" /\ result[r2].state = "resolved"

\* C29: a request carries the test mode its instance had when request() was
\* called, and what was sent is never changed afterwards; the test mode of
\* an instance changes only in a setTestMode step, which touches no request,
\* so isTestMode returns what the latest setTestMode gave, or the
\* constructor option while there was none.
C29_TestModeFixedAtInvocation ==
  [][ /\ \A r \in Calls :
           /\ (pc[r] = "idle" /\ pc'[r] # "idle")
                => HeaderOf(r)'.TestMode
                     = (IF client'[req'[r].client].testMode THEN "true" ELSE "absent")
           /\ Started(r) => req'[r] = req[r]
      /\ \A c \in DOMAIN client :
           isTestMode(c)' # isTestMode(c)
             => /\ req' = req /\ pc' = pc /\ headers' = headers /\ posts' = posts
                /\ \A d \in DOMAIN client \ {c} : isTestMode(d)' = isTestMode(d)
      /\ Len(gets') > Len(gets) /\ Len(client') > Len(client)
           => client'[Len(client')].testMode
                = DefaultFalse(gets'[Len(gets')].options.testMode)
    ]_vars

\* Call 1 went out from instance 1 without test mode and is still awaiting
\* fetch; the instance was then switched to test mode and call 2, started
\* on it afterwards, carries TestMode.
C29_Witness ==
  /\ pc[1] = "fetch"
  /\ Started(2)
  /\ req[1].client = 1 /\ req[2].client = 1
  /\ issued[1] = HeaderOf(1).SubmissionNumber
  /\ HeaderOf(1).TestMode = "absent"
  /\ HeaderOf(2).TestMode = "true"
  /\ isTestMode(1)

\* C30: a getApiClient call whose constructor throws leaves the cache as it
\* was: the instance cached before is still the default and no instance was
\* added, and an empty cache is still empty; and a getApiClient call on an
\* empty cache always runs the constructor, so it returns and caches a new
\* instance as soon as the credentials load.
C30_FailedConstructionKeepsCache ==
  [][ Len(gets') > Len(gets)
        => LET got == gets'[Len(gets')]
           IN /\ got.returned = 0
                   => /\ ConstructorRan
                      /\ got.error # NoError
                      /\ defaultClient' = defaultClient
                      /\ client' = client
              /\ (defaultClient = 0 /\ loadCredentials(credentialsFile).kind = "return")
                   => /\ got.returned = Len(client) + 1
                      /\ defaultClient' = got.returned
                      /\ client'[got.returned].credentials = credentialsFile.credentials
    ]_vars

\* The first call found no credentials and left the cache empty; the second
\* constructed instance 1; the third, with options, failed on a file gone
\* again; the fourth, without options, got instance 1 back.
C30_Witness ==
  /\ Len(gets) = 4
  /\ gets[1].returned = 0
  /\ gets[2].returned = 1
  /\ gets[3].returned = 0 /\ gets[3].options.given
  /\ gets[4].returned = 1 /\ ~gets[4].options.given
  /\ defaultClient = 1
  /\ Len(client) = 1

====
